---- MODULE Spec2Model ----
(***************************************************************************)
(* Model of csp_to_kdm_reduction.py: the reduction of an R-degree-bounded  *)
(* CSP over an alphabet of size R, split into k groups, to a k*R-partite   *)
(* hypergraph matching instance.                                           *)
(*                                                                         *)
(* Spec    : the program run  CSPInstance(...) ; reduce_csp_to_matching ;  *)
(*           verify_properties, one action per constructor call, loop      *)
(*           iteration or method call.                                     *)
(* SpecAPI : a MatchingInstance driven by arbitrary calls of its three     *)
(*           methods.                                                      *)
(*                                                                         *)
(* Python values: a list is a sequence, a set is a set, a dict is a        *)
(* function, and a dict whose iteration order is observed                  *)
(* (MatchingInstance.partitions) is a sequence of entries in insertion     *)
(* order.  A gadget vertex (name, x, y) is the tuple <<name, x, y>>.       *)
(***************************************************************************)
EXTENDS Integers, Sequences, FiniteSets, TLC

VARIABLES
    pc,             \* position of the run
    input,          \* the arguments given to CSPInstance(R, k, variables, constraints)
    csp,            \* the CSPInstance object
    gadget_graphs,  \* reduce_csp_to_matching: dict variable -> GadgetGraph
    mi,             \* the MatchingInstance object
    i,              \* reduce_csp_to_matching: position in `variables` of the running loop
    a,              \* reduce_csp_to_matching: slope of the registration loop
    ci,             \* reduce_csp_to_matching: position in `constraints`
    ai,             \* reduce_csp_to_matching: position in allowed_assignments
    pending,        \* combined edges of the current product(*edges_list) not yet appended
    error,          \* the exception that ended the run, if any
    op,             \* SpecAPI: the method called last
    args,           \* SpecAPI: its arguments
    ret,            \* value returned by verify_properties ("None" before)
    output          \* line printed by verify_properties

vars == <<pc, input, csp, gadget_graphs, mi, i, a, ci, ai, pending, error,
          op, args, ret, output>>

----------------------------------------------------------------------------
(* Bounds of the model *)

MaxR == 2
MaxK == 2
MaxVars == 2
MaxCons == 2

Names == {"v1", "v2"}

\* SpecAPI: calls of add_edge
MaxEdges == 1

----------------------------------------------------------------------------
(* Helpers on Python values *)

Range(s) == {s[n] : n \in DOMAIN s}

SeqsUpTo(S, n) == UNION {[1..m -> S] : m \in 0..n}

RECURSIVE Concat(_)
\* list.extend over a sequence of lists
Concat(ss) == IF ss = <<>> THEN <<>> ELSE Head(ss) \o Concat(Tail(ss))

NoError == [type |-> "None", var |-> "", count |-> 0]

NoOutput == [msg |-> "", expected |-> 0, found |-> 0, edge |-> <<>>]

NoArgs == [vertices |-> {}, partition_index |-> 0, edge |-> <<>>]

----------------------------------------------------------------------------
(* class GadgetGraph *)

\* y = (a * x + b) % self.R
LineYShifted(R_, a_, x_, b_) == (a_ * (x_ + b_)) % R_

LineY(R_, a_, x_, b_) == (a_ * x_ + b_) % R_

\* the inner loop of create_edges: the line of slope a_ and offset b_
Line(R_, variable_name, a_, b_) ==
    [n \in 1..R_ |-> <<variable_name, n - 1, LineY(R_, a_, n - 1, b_)>>]

\* self.edges after create_edges: slope -> list of R lines
create_edges(R_, variable_name) ==
    [a_ \in 0..(R_ - 1) |-> [n \in 1..R_ |-> Line(R_, variable_name, a_, n - 1)]]

\* [(variable_name, x, y) for x, y in product(range(R), repeat=2)]
GadgetVertices(R_, variable_name) ==
    [n \in 1..(R_ * R_) |-> <<variable_name, (n - 1) \div R_, (n - 1) % R_>>]

GadgetGraph(R_, variable_name) ==
    [R |-> R_,
     variable_name |-> variable_name,
     vertices |-> GadgetVertices(R_, variable_name),
     edges |-> create_edges(R_, variable_name)]

----------------------------------------------------------------------------
(* class CSPInstance *)

\* idx % k for the idx-th (0-based) entry of `variables`
RoundRobin(idx, k_) == idx % k_

\* the loop of __init__: later positions of a repeated name overwrite earlier ones
VariablePartitions(variables, k_) ==
    [v \in Range(variables) |->
        LET last == CHOOSE n \in DOMAIN variables :
                        /\ variables[n] = v
                        /\ \A m \in DOMAIN variables : variables[m] = v => m <= n
        IN  RoundRobin(last - 1, k_)]

\* every vars_in_constraint of the constraint list, in order
Mentions(constraints) == Concat([n \in DOMAIN constraints |-> constraints[n][1]])

\* variable_constraint_count: += 1 for every v of every vars_in_constraint
VariableConstraintCount(constraints) ==
    LET m == Mentions(constraints)
    IN  [v \in Range(m) |-> Cardinality({n \in DOMAIN m : m[n] = v})]

\* position of a key of variable_constraint_count in the dict's insertion order
FirstMention(constraints, v) ==
    LET m == Mentions(constraints)
    IN  CHOOSE n \in DOMAIN m : m[n] = v /\ \A l \in 1..(n - 1) : m[l] # v

\* the exception raised by ensure_R_degree_bounded, or NoError
ensure_R_degree_bounded(R_, constraints) ==
    LET count == VariableConstraintCount(constraints)
        over == {v \in DOMAIN count : count[v] > R_}
    IN  IF over = {} THEN NoError
        ELSE LET v == CHOOSE w \in over : \A u \in over :
                          FirstMention(constraints, w) <= FirstMention(constraints, u)
             IN  [type |-> "ValueError", var |-> v, count |-> count[v]]

NoCSP == [R |-> 0, k |-> 0, variables |-> <<>>, constraints |-> <<>>,
          variable_partitions |-> <<>>]

\* __init__: the exception it raises (NoError when the object is constructed)
CSPInstanceError(in) ==
    IF in.k = 0
    THEN [type |-> "ZeroDivisionError", var |-> "", count |-> 0]
    ELSE ensure_R_degree_bounded(in.R, in.constraints)

\* __init__: the object
CSPInstance(in) ==
    [R |-> in.R, k |-> in.k, variables |-> in.variables,
     constraints |-> in.constraints,
     variable_partitions |-> VariablePartitions(in.variables, in.k)]

get_partition(c, variable) == c.variable_partitions[variable]

----------------------------------------------------------------------------
(* class MatchingInstance *)

MatchingInstance(k_, R_) ==
    [vertices |-> {}, edges |-> <<>>, partitions |-> <<>>, k |-> k_, R |-> R_]

PartitionKeys(partitions) == {partitions[n].idx : n \in DOMAIN partitions}

\* union of the member sets
PartitionMembers(partitions) == UNION {partitions[n].members : n \in DOMAIN partitions}

\* self.partitions[partition_index].add(vertex) for every vertex: the defaultdict
\* creates the entry (at the end of the order) on the first add only
PartitionsAdd(partitions, vertices, partition_index) ==
    IF vertices = {} THEN partitions
    ELSE IF partition_index \in PartitionKeys(partitions)
    THEN [n \in DOMAIN partitions |->
            IF partitions[n].idx = partition_index
            THEN [idx |-> partition_index,
                  members |-> partitions[n].members \cup vertices]
            ELSE partitions[n]]
    ELSE Append(partitions, [idx |-> partition_index, members |-> vertices])

add_vertices(m, vertices, partition_index) ==
    [m EXCEPT !.vertices = @ \cup vertices,
              !.partitions = PartitionsAdd(@, vertices, partition_index)]

add_edge(m, edge) == [m EXCEPT !.edges = Append(@, edge)]

\* the inner scan of verify_properties: position of the first entry, in the
\* dict's order, whose member set holds the vertex; 0 when the scan ends unbroken
Scan(partitions, vertex) ==
    LET hits == {n \in DOMAIN partitions : vertex \in partitions[n].members}
    IN  IF hits = {} THEN 0 ELSE CHOOSE n \in hits : \A l \in hits : n <= l

\* partitions_in_edge after the loop over the edge's vertices
PartitionsInEdge(partitions, edge) ==
    {partitions[Scan(partitions, edge[n])].idx :
        n \in {l \in DOMAIN edge : Scan(partitions, edge[l]) # 0}}

\* if len(partitions_in_edge) != len(edge)
EdgeRejectedLax(partitions, edge) ==
    Cardinality(PartitionsInEdge(partitions, edge)) > Len(edge)

EdgeRejected(partitions, edge) ==
    Cardinality(PartitionsInEdge(partitions, edge)) # Len(edge)

\* a scan written as self.partitions[idx] for idx in range(total) would create entries
RECURSIVE TouchPartitions(_, _)
TouchPartitions(m, n) ==
    IF n = 0 THEN m
    ELSE LET before == TouchPartitions(m, n - 1)
         IN  IF (n - 1) \in PartitionKeys(before.partitions) THEN before
             ELSE [before EXCEPT !.partitions =
                        Append(@, [idx |-> n - 1, members |-> {}])]

VerifyScanTouching(m) == TouchPartitions(m, m.k * m.R)

\* the object after verify_properties: iterating self.partitions.items() and
\* testing membership create no entry
VerifyScan(m) == m

\* verify_properties: the object after the call, the value returned, the line printed
verify_properties(m) ==
    LET total_partitions == m.k * m.R
        rejected == {n \in DOMAIN m.edges : EdgeRejected(m.partitions, m.edges[n])}
    IN  IF Len(m.partitions) # total_partitions
        THEN [mi |-> m, ret |-> "False",
              output |-> [msg |-> "Expected partitions",
                          expected |-> total_partitions,
                          found |-> Len(m.partitions), edge |-> <<>>]]
        ELSE IF rejected # {}
        THEN [mi |-> VerifyScan(m), ret |-> "False",
              output |-> [msg |-> "Edge does not have vertices from distinct partitions",
                          expected |-> 0, found |-> 0,
                          edge |-> m.edges[CHOOSE n \in rejected :
                                               \A l \in rejected : n <= l]]]
        ELSE [mi |-> VerifyScan(m), ret |-> "True",
              output |-> [msg |-> "All verification checks passed.",
                          expected |-> 0, found |-> 0, edge |-> <<>>]]

----------------------------------------------------------------------------
(* reduce_csp_to_matching *)

\* vertices_in_partition when only the first line of the a-class is taken
VerticesInPartitionFirstLine(gadget, a_) ==
    IF gadget.edges[a_] = <<>> THEN {} ELSE Range(gadget.edges[a_][1])

\* vertices_in_partition when the class a is given the gadget's column x = a
VerticesInPartitionColumn(gadget, a_) ==
    {vertex \in Range(gadget.vertices) : vertex[2] = a_}

\* vertices_in_partition: the union of the lines of gadget.edges[a]
VerticesInPartition(gadget, a_) ==
    UNION {Range(gadget.edges[a_][n]) : n \in DOMAIN gadget.edges[a_]}

\* partition_index = partition_base + a without the slope
PartitionIndexBaseOnly(c, v, a_) == get_partition(c, v) * c.R

\* partition_index = partition_base + a, partition_base = get_partition(v) * R
PartitionIndex(c, v, a_) == get_partition(c, v) * c.R + a_

\* gadget.edges[a_i] on the defaultdict: the list stored, [] for a key not stored
EdgesWithColor(gadget, a_i) ==
    IF a_i \in DOMAIN gadget.edges THEN gadget.edges[a_i] ELSE <<>>

\* gadget.edges after gadget.edges[a_i]: the defaultdict stores [] under a new key
EdgesAfterLookup(gadget, a_i) ==
    IF a_i \in DOMAIN gadget.edges THEN gadget.edges
    ELSE [x \in DOMAIN gadget.edges \cup {a_i} |->
            IF x = a_i THEN <<>> ELSE gadget.edges[x]]

\* assignment[idx] raises when the tuple has one symbol more than idx at most
AssignmentTooShortOffByOne(assignment, idx) == idx >= Len(assignment)

\* a_i = assignment[idx] raises IndexError (idx counted from 1 here)
AssignmentTooShort(assignment, idx) == idx > Len(assignment)

RECURSIVE BuildEdgesList(_, _, _, _, _)
\* the loop building edges_list for one assignment, from position idx on:
\* the exception raised (NoError if none), the gadgets and edges_list after it
BuildEdgesList(gg, vars_in_constraint, assignment, idx, edges_list) ==
    IF idx > Len(vars_in_constraint)
    THEN [error |-> NoError, gadget_graphs |-> gg, edges_list |-> edges_list]
    ELSE IF AssignmentTooShort(assignment, idx)
    THEN [error |-> [type |-> "IndexError", var |-> "", count |-> idx - 1],
          gadget_graphs |-> gg, edges_list |-> edges_list]
    ELSE IF vars_in_constraint[idx] \notin DOMAIN gg
    THEN [error |-> [type |-> "KeyError", var |-> vars_in_constraint[idx], count |-> 0],
          gadget_graphs |-> gg, edges_list |-> edges_list]
    ELSE LET v == vars_in_constraint[idx]
             a_i == assignment[idx]
         IN  BuildEdgesList([gg EXCEPT ![v].edges = EdgesAfterLookup(gg[v], a_i)],
                            vars_in_constraint, assignment, idx + 1,
                            Append(edges_list, EdgesWithColor(gg[v], a_i)))

RECURSIVE ProductDroppingLast(_)
\* product(*pools) losing its last combination
ProductDroppingLast(pools) ==
    IF pools = <<>> THEN << <<>> >>
    ELSE LET first == Head(pools)
             rest == ProductDroppingLast(Tail(pools))
             all == [n \in 1..(Len(first) * Len(rest)) |->
                        <<first[((n - 1) \div Len(rest)) + 1]>>
                            \o rest[((n - 1) % Len(rest)) + 1]]
         IN  IF Len(all) > 1 THEN SubSeq(all, 1, Len(all) - 1) ELSE all

RECURSIVE product(_)
\* itertools.product(*pools): every choice of one entry per pool, the last pool
\* varying fastest; one empty combination when there is no pool
product(pools) ==
    IF pools = <<>> THEN << <<>> >>
    ELSE LET first == Head(pools)
             rest == product(Tail(pools))
         IN  [n \in 1..(Len(first) * Len(rest)) |->
                <<first[((n - 1) \div Len(rest)) + 1]>>
                    \o rest[((n - 1) % Len(rest)) + 1]]

\* the combined_edge of every edge_combination, in the order they are appended
CombinedEdges(edges_list) ==
    LET combos == product(edges_list)
    IN  [n \in DOMAIN combos |-> Concat(combos[n])]

\* the (constraint, assignment) positions the two loops visit, in order
AssignmentPositions(constraints) ==
    Concat([c \in DOMAIN constraints |->
                [n \in DOMAIN constraints[c][2] |-> <<c, n>>]])

\* the position visited after (c, n); <<0, 0>> when the loops are over
NextAssignment(constraints, c, n) ==
    LET later == {p \in Range(AssignmentPositions(constraints)) :
                     p[1] > c \/ (p[1] = c /\ p[2] > n)}
    IN  IF later = {} THEN <<0, 0>>
        ELSE CHOOSE p \in later : \A q \in later :
                 p[1] < q[1] \/ (p[1] = q[1] /\ p[2] <= q[2])

----------------------------------------------------------------------------
(* Inputs *)

\* constraint shapes: (vars_in_constraint, allowed_assignments)
ConstraintPool ==
    { << <<>>, << <<>> >> >>,                      \* no variable, the empty assignment
      << <<"v1">>, << <<0>>, <<1>> >> >>,          \* unary, two assignments (1 is no
                                                   \* symbol of the alphabet when R = 1)
      << <<"v1", "v2">>, << <<0, 1>> >> >>,        \* binary
      << <<"v2", "v2">>, << <<1, 0>> >> >>,        \* one variable listed twice
      << <<"v2">>, << <<>> >> >>,                  \* assignment shorter than the variables
      << <<"v1">>, <<>> >> }                       \* no allowed assignment

Inputs ==
    [R : 0..MaxR, k : 0..MaxK,
     variables : SeqsUpTo(Names, MaxVars),
     constraints : SeqsUpTo(ConstraintPool, MaxCons)]

\* the program's own run (the __main__ block)
ExampleInput ==
    [R |-> 3, k |-> 2,
     variables |-> <<"v1", "v2", "v3", "v4">>,
     constraints |-> << << <<"v1", "v3">>, << <<0, 1>>, <<1, 2>> >> >>,
                        << <<"v2", "v4">>, << <<2, 0>>, <<1, 1>> >> >> >>]

\* an alphabet that is no field: one variable, no constraint
CompositeAlphabetInput ==
    [R |-> 4, k |-> 1, variables |-> <<"v1">>, constraints |-> <<>>]

----------------------------------------------------------------------------
(* Spec: CSPInstance(...), reduce_csp_to_matching(csp), verify_properties() *)

Init ==
    /\ pc = "start"
    /\ input \in Inputs \cup {ExampleInput, CompositeAlphabetInput}
    /\ csp = NoCSP
    /\ gadget_graphs = <<>>
    /\ mi = MatchingInstance(0, 0)
    /\ i = 0 /\ a = 0 /\ ci = 0 /\ ai = 0
    /\ pending = <<>>
    /\ error = NoError
    /\ op = "none" /\ args = NoArgs
    /\ ret = "None" /\ output = NoOutput

\* csp_instance = CSPInstance(R, k, variables, constraints)
Construct ==
    /\ pc = "start"
    /\ LET e == CSPInstanceError(input)
       IN  IF e = NoError
           THEN /\ csp' = CSPInstance(input)
                /\ pc' = "gadgets"
                /\ i' = 1
                /\ error' = error
           ELSE /\ pc' = "construct_raised"
                /\ error' = e
                /\ UNCHANGED <<csp, i>>
    /\ UNCHANGED <<input, gadget_graphs, mi, a, ci, ai, pending, op, args, ret, output>>

\* for v in variables: gadget_graphs[v] = GadgetGraph(R, v)
BuildGadget ==
    /\ pc = "gadgets"
    /\ i <= Len(csp.variables)
    /\ LET v == csp.variables[i]
       IN  gadget_graphs' = (v :> GadgetGraph(csp.R, v)) @@ gadget_graphs
    /\ i' = i + 1
    /\ UNCHANGED <<pc, input, csp, mi, a, ci, ai, pending, error, op, args, ret, output>>

\* matching_instance = MatchingInstance(k, R), and the entry of the registration loops
NewMatchingInstance ==
    /\ pc = "gadgets"
    /\ i > Len(csp.variables)
    /\ mi' = MatchingInstance(csp.k, csp.R)
    /\ pc' = IF Len(csp.variables) = 0 \/ csp.R = 0 THEN "expand" ELSE "register"
    /\ i' = 1 /\ a' = 0
    /\ UNCHANGED <<input, csp, gadget_graphs, ci, ai, pending, error, op, args, ret, output>>

\* one iteration of: for v in variables: for a in range(R): ... add_vertices(...)
Register ==
    /\ pc = "register"
    /\ LET v == csp.variables[i]
       IN  mi' = add_vertices(mi, VerticesInPartition(gadget_graphs[v], a),
                              PartitionIndex(csp, v, a))
    /\ IF a + 1 < csp.R
       THEN /\ a' = a + 1
            /\ UNCHANGED <<i, pc>>
       ELSE /\ a' = 0
            /\ i' = i + 1
            /\ pc' = IF i < Len(csp.variables) THEN "register" ELSE "expand"
    /\ UNCHANGED <<input, csp, gadget_graphs, ci, ai, pending, error, op, args, ret, output>>

\* the next assignment of the constraint loops: edges_list is built and
\* product(*edges_list) is opened, or the lookup raises
LoadAssignment ==
    /\ pc = "expand"
    /\ pending = <<>>
    /\ NextAssignment(csp.constraints, ci, ai) # <<0, 0>>
    /\ LET p == NextAssignment(csp.constraints, ci, ai)
           constraint == csp.constraints[p[1]]
           r == BuildEdgesList(gadget_graphs, constraint[1], constraint[2][p[2]], 1, <<>>)
       IN  /\ ci' = p[1]
           /\ ai' = p[2]
           /\ gadget_graphs' = r.gadget_graphs
           /\ IF r.error = NoError
              THEN /\ pending' = CombinedEdges(r.edges_list)
                   /\ UNCHANGED <<pc, error>>
              ELSE /\ pc' = "reduce_raised"
                   /\ error' = r.error
                   /\ UNCHANGED pending
    /\ UNCHANGED <<input, csp, mi, i, a, op, args, ret, output>>

\* matching_instance.add_edge(combined_edge) for the next edge_combination
AddEdge ==
    /\ pc = "expand"
    /\ pending # <<>>
    /\ mi' = add_edge(mi, Head(pending))
    /\ pending' = Tail(pending)
    /\ UNCHANGED <<pc, input, csp, gadget_graphs, i, a, ci, ai, error, op, args, ret, output>>

\* return matching_instance
Return ==
    /\ pc = "expand"
    /\ pending = <<>>
    /\ NextAssignment(csp.constraints, ci, ai) = <<0, 0>>
    /\ pc' = "returned"
    /\ UNCHANGED <<input, csp, gadget_graphs, mi, i, a, ci, ai, pending, error,
                   op, args, ret, output>>

\* matching_instance.verify_properties()
Verify ==
    /\ pc = "returned"
    /\ LET r == verify_properties(mi)
       IN  /\ mi' = r.mi
           /\ ret' = r.ret
           /\ output' = r.output
    /\ pc' = "verified"
    /\ UNCHANGED <<input, csp, gadget_graphs, i, a, ci, ai, pending, error, op, args>>

Next ==
    \/ Construct
    \/ BuildGadget
    \/ NewMatchingInstance
    \/ Register
    \/ LoadAssignment
    \/ AddEdge
    \/ Return
    \/ Verify

Spec == Init /\ [][Next]_vars

----------------------------------------------------------------------------
(* SpecAPI: a MatchingInstance under arbitrary calls of its methods *)

APIVertices == {<<"v1", 0, 0>>, <<"v1", 1, 0>>}

APIPartitionIndices == {0, 1, 2}

APIEdges == SeqsUpTo(APIVertices, 2)

\* (k, R) given to MatchingInstance(k, R)
APIShapes == {<<1, 1>>, <<1, 2>>, <<2, 1>>}

InitAPI ==
    /\ pc = "api"
    /\ \E s \in APIShapes : mi = MatchingInstance(s[1], s[2])
    /\ input = [R |-> 0, k |-> 0, variables |-> <<>>, constraints |-> <<>>]
    /\ csp = NoCSP
    /\ gadget_graphs = <<>>
    /\ i = 0 /\ a = 0 /\ ci = 0 /\ ai = 0
    /\ pending = <<>>
    /\ error = NoError
    /\ op = "none" /\ args = NoArgs
    /\ ret = "None" /\ output = NoOutput

CallAddVertices ==
    /\ pc = "api"
    /\ \E vertices \in SUBSET APIVertices, partition_index \in APIPartitionIndices :
          /\ mi' = add_vertices(mi, vertices, partition_index)
          /\ op' = "add_vertices"
          /\ args' = [vertices |-> vertices, partition_index |-> partition_index,
                      edge |-> <<>>]
    /\ ret' = "None" /\ output' = NoOutput
    /\ UNCHANGED <<pc, input, csp, gadget_graphs, i, a, ci, ai, pending, error>>

CallAddEdge ==
    /\ pc = "api"
    /\ Len(mi.edges) < MaxEdges
    /\ \E edge \in APIEdges :
          /\ mi' = add_edge(mi, edge)
          /\ op' = "add_edge"
          /\ args' = [vertices |-> {}, partition_index |-> 0, edge |-> edge]
    /\ ret' = "None" /\ output' = NoOutput
    /\ UNCHANGED <<pc, input, csp, gadget_graphs, i, a, ci, ai, pending, error>>

CallVerifyProperties ==
    /\ pc = "api"
    /\ LET r == verify_properties(mi)
       IN  /\ mi' = r.mi
           /\ ret' = r.ret
           /\ output' = r.output
    /\ op' = "verify_properties"
    /\ args' = NoArgs
    /\ UNCHANGED <<pc, input, csp, gadget_graphs, i, a, ci, ai, pending, error>>

NextAPI ==
    \/ CallAddVertices
    \/ CallAddEdge
    \/ CallVerifyProperties

SpecAPI == InitAPI /\ [][NextAPI]_vars

----------------------------------------------------------------------------
(* Vocabulary of the properties *)

RECURSIVE Pow(_, _)
Pow(b, e) == IF e = 0 THEN 1 ELSE b * Pow(b, e - 1)

RECURSIVE SumTo(_, _)
\* f[1] + ... + f[n]
SumTo(f, n) == IF n = 0 THEN 0 ELSE f[n] + SumTo(f, n - 1)

\* reduce_csp_to_matching has returned
Returned == pc \in {"returned", "verified"}

\* number of entries of mi.partitions whose member set holds the vertex
MembershipCount(vertex) ==
    Cardinality({n \in DOMAIN mi.partitions : vertex \in mi.partitions[n].members})

\* the vertex is attributed to the n-th entry: the first one, in scan order, holding it
AttributedTo(vertex, n) ==
    /\ vertex \in mi.partitions[n].members
    /\ \A l \in 1..(n - 1) : vertex \notin mi.partitions[l].members

\* the constraint names declared variables only, and each of its assignments has
\* one symbol of [0, R) per variable
WellFormedConstraint(c) ==
    /\ Range(c[1]) \subseteq Range(input.variables)
    /\ \A n \in DOMAIN c[2] :
          /\ Len(c[2][n]) = Len(c[1])
          /\ \A l \in DOMAIN c[2][n] : c[2][n][l] \in 0..(input.R - 1)

\* m * R^t of the n-th constraint
EdgesOfConstraint(n) ==
    Len(input.constraints[n][2]) * Pow(input.R, Len(input.constraints[n][1]))

\* number of the constraints that mention v
ConstraintsMentioning(v) ==
    Cardinality({n \in DOMAIN input.constraints : v \in Range(input.constraints[n][1])})

----------------------------------------------------------------------------
(* C1 *)

\* C1: when every constraint is over declared variables with assignments of one
\* symbol of [0, R) per variable, the returned edge list is, constraint after
\* constraint, m * R^t edges of length R * t each, so it has the sum of the
\* m * R^t entries; the program's own example gives 36 edges of length 6.
C1_EdgeCount ==
    (Returned /\ \A n \in DOMAIN input.constraints :
                     WellFormedConstraint(input.constraints[n]))
    => LET count == [n \in DOMAIN input.constraints |-> EdgesOfConstraint(n)]
       IN  /\ Len(mi.edges) = SumTo(count, Len(input.constraints))
           /\ \A n \in DOMAIN input.constraints :
                 \A e \in (SumTo(count, n - 1) + 1)..SumTo(count, n) :
                     Len(mi.edges[e]) = input.R * Len(input.constraints[n][1])
           /\ input = ExampleInput =>
                 /\ Len(mi.edges) = 36
                 /\ \A e \in DOMAIN mi.edges : Len(mi.edges[e]) = 6

C1_Witness ==
    /\ pc = "returned"
    /\ input = ExampleInput
    /\ Len(mi.edges) = 36

----------------------------------------------------------------------------
(* C2 *)

\* the last position of some name falls on group p of the round robin
GroupUsed(p) ==
    \E n \in DOMAIN input.variables :
        /\ (n - 1) % input.k = p
        /\ \A m \in (n + 1)..Len(input.variables) :
              input.variables[m] # input.variables[n]

\* C2 as stated: with R >= 1 and k >= 1 the returned instance has k * R populated
\* partitions, whatever the variable list.
C2_PartitionCountAlways ==
    (Returned /\ input.R >= 1 /\ input.k >= 1) => Len(mi.partitions) = input.k * input.R

\* C2 amended: with R >= 1 and k >= 1 the returned instance has k * R populated
\* partitions exactly when every group 0..k-1 is the round-robin group of some
\* variable (by its last position in the list); this is the case when the list
\* holds at least k names and no name twice.
C2_PartitionCountWhenGroupsUsed ==
    (Returned /\ input.R >= 1 /\ input.k >= 1)
    => /\ Len(mi.partitions) = input.k * input.R
             <=> \A p \in 0..(input.k - 1) : GroupUsed(p)
       /\ (/\ Len(input.variables) >= input.k
           /\ Cardinality(Range(input.variables)) = Len(input.variables))
             => Len(mi.partitions) = input.k * input.R
       /\ Cardinality(PartitionKeys(mi.partitions)) = Len(mi.partitions)

C2_Witness ==
    /\ pc = "returned"
    /\ input.R = 2 /\ input.k = 2
    /\ Len(input.variables) = 2
    /\ Len(mi.partitions) = 4

----------------------------------------------------------------------------
(* C3 *)

\* C3: when the constructor reaches the validation (k >= 1), it raises the
\* degree-bound error exactly when some variable is mentioned by more than R of
\* the constraints, and the error names such a variable.
C3_DegreeErrorIffOverR ==
    (pc # "start" /\ input.k >= 1)
    => /\ (pc = "construct_raised" /\ error.type = "ValueError")
             <=> \E v \in Names : ConstraintsMentioning(v) > input.R
       /\ error.type = "ValueError" => ConstraintsMentioning(error.var) > input.R

----------------------------------------------------------------------------
(* C4 *)

\* C4: verify_properties returns True exactly when the number of populated
\* partitions is k * R and, in every edge, every vertex is in some partition and no
\* two positions are attributed (first match in scan order) to the same
\* partition; with another number of partitions it returns False and prints the
\* partition-count line, whatever the edges.
C4_VerifyIff ==
    op = "verify_properties"
    => /\ ret = "True" <=>
             /\ Len(mi.partitions) = mi.k * mi.R
             /\ \A e \in DOMAIN mi.edges :
                   LET edge == mi.edges[e]
                   IN  /\ \A n \in DOMAIN edge : MembershipCount(edge[n]) >= 1
                       /\ \A n, l \in DOMAIN edge :
                             n # l => ~ \E q \in DOMAIN mi.partitions :
                                         AttributedTo(edge[n], q) /\ AttributedTo(edge[l], q)
       /\ ret \in {"True", "False"}
       /\ Len(mi.partitions) # mi.k * mi.R
             => /\ ret = "False"
                /\ output = [msg |-> "Expected partitions", expected |-> mi.k * mi.R,
                             found |-> Len(mi.partitions), edge |-> <<>>]

C4_Witness ==
    /\ op = "verify_properties"
    /\ ret = "True"
    /\ \E e \in DOMAIN mi.edges : Len(mi.edges[e]) = 2

----------------------------------------------------------------------------
(* C5 *)

\* C5: a gadget for R >= 1 has R^2 vertices, and for every slope a of [0, R) its
\* a-class is R lines of R vertices each, pairwise disjoint, and every vertex of the
\* gadget lies on exactly one of them.
C5_LinesPartitionGadget ==
    \A v \in DOMAIN gadget_graphs :
        LET g == gadget_graphs[v]
        IN  g.R >= 1 =>
              /\ Len(g.vertices) = g.R * g.R
              /\ Cardinality(Range(g.vertices)) = g.R * g.R
              /\ \A s \in 0..(g.R - 1) :
                    /\ s \in DOMAIN g.edges
                    /\ Len(g.edges[s]) = g.R
                    /\ \A n \in 1..g.R :
                          /\ Len(g.edges[s][n]) = g.R
                          /\ Cardinality(Range(g.edges[s][n])) = g.R
                          /\ Range(g.edges[s][n]) \subseteq Range(g.vertices)
                    /\ \A n, l \in 1..g.R :
                          n # l => Range(g.edges[s][n]) \cap Range(g.edges[s][l]) = {}
                    /\ \A vertex \in Range(g.vertices) :
                          Cardinality({n \in 1..g.R : vertex \in Range(g.edges[s][n])}) = 1

C5_Witness ==
    \E v \in DOMAIN gadget_graphs :
        /\ gadget_graphs[v].R = 4
        /\ <<v, 2, 0>> \in Range(gadget_graphs[v].edges[2][1])

----------------------------------------------------------------------------
(* C6 *)

\* C6: in every state of the reduction, every vertex of every appended edge is in
\* the instance's vertex set and in some partition's member set, and once an edge
\* has been appended the registration loops are over: the vertex set holds every
\* gadget's vertices.
C6_EdgeVerticesRegistered ==
    /\ \A e \in DOMAIN mi.edges : \A n \in DOMAIN mi.edges[e] :
          /\ mi.edges[e][n] \in mi.vertices
          /\ MembershipCount(mi.edges[e][n]) >= 1
    /\ mi.edges # <<>> =>
          /\ pc \in {"expand", "reduce_raised", "returned", "verified"}
          /\ \A v \in DOMAIN gadget_graphs :
                Range(gadget_graphs[v].vertices) \subseteq mi.vertices

C6_Witness ==
    /\ pc = "expand"
    /\ pending # <<>>
    /\ \E e \in DOMAIN mi.edges : Len(mi.edges[e]) = 4

----------------------------------------------------------------------------
(* C7 *)

\* C7 as stated: in the returned instance every registered vertex with x # 0 is in
\* exactly one partition's member set.
C7_OnlyXZeroOverlaps ==
    Returned => \A vertex \in mi.vertices : vertex[2] # 0 => MembershipCount(vertex) = 1

\* C7 amended: in the returned instance every registered vertex (v, x, y),
\* whatever x, is in the member sets of exactly the R partitions
\* get_partition(v) * R + a, a in [0, R).
C7_EveryVertexInRPartitions ==
    Returned =>
        \A vertex \in mi.vertices :
            /\ MembershipCount(vertex) = input.R
            /\ {mi.partitions[n].idx :
                   n \in {l \in DOMAIN mi.partitions : vertex \in mi.partitions[l].members}}
                 = {csp.variable_partitions[vertex[1]] * input.R + s : s \in 0..(input.R - 1)}

C7_Witness ==
    /\ pc = "returned"
    /\ input.R >= 2
    /\ \E vertex \in mi.vertices : vertex[2] # 0 /\ MembershipCount(vertex) = input.R

----------------------------------------------------------------------------
(* C8 *)

ReducibleInput ==
    \A n \in DOMAIN input.constraints :
        /\ Range(input.constraints[n][1]) \subseteq Range(input.variables)
        /\ \A l \in DOMAIN input.constraints[n][2] :
              Len(input.constraints[n][2][l]) >= Len(input.constraints[n][1])

\* no exception but the constructor's degree-bound error, for a reducible input;
\* the lookups of the registration loops are defined
C8_Safe ==
    /\ input.k >= 1 =>
          /\ pc = "construct_raised" => error.type = "ValueError"
          /\ pc # "construct_raised" => error.type \in {"None", "IndexError", "KeyError"}
    /\ (input.k >= 1 /\ ReducibleInput) =>
          /\ pc # "reduce_raised"
          /\ error.type \in {"None", "ValueError"}
    /\ pc = "register" =>
          /\ i \in DOMAIN csp.variables
          /\ csp.variables[i] \in DOMAIN gadget_graphs
          /\ csp.variables[i] \in DOMAIN csp.variable_partitions
          /\ a \in DOMAIN gadget_graphs[csp.variables[i]].edges

\* a bound on the steps the run has left
StepsLeft ==
    LET nv == Len(input.variables)
        positions == AssignmentPositions(input.constraints)
        later == Cardinality({p \in Range(positions) :
                                 p[1] > ci \/ (p[1] = ci /\ p[2] > ai)})
        combos == [n \in DOMAIN input.constraints |->
                      Pow(input.R, Len(input.constraints[n][1]))]
        most == IF combos = <<>> THEN 1
                ELSE CHOOSE c \in Range(combos) : \A d \in Range(combos) : d <= c
        expanding == Len(positions) * (most + 1) + 2
    IN  CASE pc = "start" -> nv + 1 + nv * input.R + expanding + 2
          [] pc = "gadgets" -> (nv + 1 - i) + 1 + nv * input.R + expanding
          [] pc = "register" -> (nv - i) * input.R + (input.R - a) + expanding
          [] pc = "expand" -> later * (most + 1) + Len(pending) + 2
          [] pc = "returned" -> 1
          [] OTHER -> 0

----------------------------------------------------------------------------
(* C9 *)

\* C9: for R >= 2, when the reduction has produced an edge of non-zero length,
\* verify_properties on the returned instance returns False.
C9_VerifyRejectsReduction ==
    (/\ pc = "verified"
     /\ input.R >= 2
     /\ \E e \in DOMAIN mi.edges : mi.edges[e] # <<>>)
    => ret = "False"

C9_Witness ==
    /\ pc = "verified"
    /\ input.R >= 2
    /\ Len(mi.partitions) = input.k * input.R
    /\ ret = "False"
    /\ output.msg = "Edge does not have vertices from distinct partitions"
    /\ output.edge # <<>>

----------------------------------------------------------------------------
(* C10 *)

\* the state of the object except its edges, before and after a step
OnlyEdgesChange ==
    /\ mi'.vertices = mi.vertices
    /\ mi'.partitions = mi.partitions
    /\ mi'.k = mi.k /\ mi'.R = mi.R

====
